---- MODULE Spec2Model ----
(***************************************************************************)
(* openwebui-watcher (src/watcher.py): a state-machine model of            *)
(* Syncer.sync_once, the StateStore it reads and writes, the quarantine    *)
(* folder, the watched directory and the remote knowledge collection.      *)
(*                                                                         *)
(* One pass of sync_once is split at the iterations of its three loops:    *)
(*   PassBegin / ListFail   lines 471-586 (scan, list, classify, queues,   *)
(*                          the early "no changes" return)                 *)
(*   UploadItem, UploadDone lines 601-690                                  *)
(*   AddItem, AddDone       lines 694-742                                  *)
(*   DeleteItem, Finish     lines 748-788                                  *)
(* The writers of the watched directory and the clock act between passes; *)
(* a file can be removed at any step.  The remote store is a black box:    *)
(* every request has the outcomes the code distinguishes.                  *)
(*                                                                         *)
(* Syncer.run is the loop around the passes: Sleep, Caught, Uncaught,      *)
(* StopRequest, Exit (lines 790-818).                                      *)
(*                                                                         *)
(* Two parts of the program are followed on their own, at a finer grain:   *)
(*   NetSpec   one call of _request, upload_file or add_to_knowledge, one  *)
(*             step per HTTP attempt (lines 159-177, 403-459)              *)
(*   DiskSpec  the state file across StateStore.save, a kill of the        *)
(*             process and the _load of the restart (lines 46-73)          *)
(***************************************************************************)
EXTENDS Integers, Sequences, FiniteSets, TLC

\* ------------------------------------------------------------------ bounds
MaxTime == 2
MaxId == 4
MaxEdits == 2
MaxFails == 4

\* ------------------------------------------------------- program constants
\* Python's None for the numeric fields (sizes, mtimes and ids are >= 0).
None == -1
\* stable_age_seconds, with the clock counting in units of it.
stable_age_seconds == 1

\* ------------------------------------------------------------------ paths
\* A path is a sequence of components, a component a sequence of tokens;
\* a last token starting with "." is the extension os.path.splitext splits.
\* The watched directory holds at most x.txt and _upload_failed2/x.txt: two
\* paths of one display name, the second in a folder whose name starts with
\* the quarantine folder's.
Rels == {"x", "d/x"}
failed_dir_name == <<"_upload_failed">>
PathOf(rel) ==
  CASE rel = "x"   -> << <<"x", ".txt">> >>
    [] rel = "d/x" -> << <<"_upload_failed", "2">>, <<"x", ".txt">> >>
\* The order os.walk yields the files in (dict insertion order of `local`).
RelOrder == <<"x", "d/x">>
Exts == {".txt"}
\* f".failed{suffix}"
FailedTok(n) == ".failed" \o ToString(n)

\* os.path.basename
Basename(path) == path[Len(path)]
\* meta["name"] = os.path.basename(rel)
Name(rel) == Basename(PathOf(rel))
\* os.path.join(a, b) on component sequences
Join(a, b) == a \o b
\* The characters of a path: "/" before every component, then its tokens.
RECURSIVE Chars(_)
Chars(path) ==
  IF path = <<>> THEN <<>>
  ELSE <<"/">> \o Head(path) \o Chars(Tail(path))
\* str.startswith
StartsWith(s, p) == Len(p) <= Len(s) /\ SubSeq(s, 1, Len(p)) = p
\* os.path.splitext on the last component
SplitBase(c) == IF Len(c) > 1 /\ c[Len(c)] \in Exts THEN SubSeq(c, 1, Len(c) - 1) ELSE c
SplitExt(c) == IF Len(c) > 1 /\ c[Len(c)] \in Exts THEN <<c[Len(c)]>> ELSE <<>>
\* self.failed_dir, relative to watch_dir
failed_dir == <<failed_dir_name>>
\* quarantine_file: candidate = dest, then f"{base}.failed{suffix}{ext}"
Candidate(rel, n) ==
  LET dest == Join(failed_dir, PathOf(rel))
      last == dest[Len(dest)]
  IN IF n = 0 THEN dest
     ELSE SubSeq(dest, 1, Len(dest) - 1)
          \o << SplitBase(last) \o <<FailedTok(n)>> \o SplitExt(last) >>
\* quarantine_file line 262: abspath(src).startswith(abspath(failed_dir))
InFailedDir(rel) == StartsWith(Chars(PathOf(rel)), Chars(failed_dir))

\* A remote-only display name, and the entries the collection may hold at start.
NameZ == <<"z", ".txt">>
InitRemote == {[name |-> Name("x"), id |-> 1], [name |-> NameZ, id |-> 2]}
\* Uploads return ids the collection has not listed before.
FirstFreshId == Cardinality(InitRemote) + 1
Sizes == {1}

\* ------------------------------------------------------------------ state
VARIABLES
  fs,         \* watched directory: rel -> [size, mtime], over the files present
  qfiles,     \* files under the quarantine folder: set of <<rel, n>>
  sidecars,   \* sidecar reason files: set of <<rel, n>>
  now,        \* time.time()
  remote,     \* the knowledge collection: set of [name, id]
  nextId,     \* the id the next successful upload returns
  idFp,       \* per uploaded id, the [size, mtime] of the bytes uploaded
  st,         \* StateStore.data["files"]: rel -> SyncState
  enabled,    \* StateStore.enabled
  wrote,      \* this pass's StateStore.save() wrote the whole mapping
  pc,         \* where run() is: "idle" (sleeping), in sync_once at "upload",
              \* "add" or "delete", "returned" from it, "raised" (sync_once
              \* raised an unexpected exception), "caught" (run() caught
              \* and logged it), "crashed" (the exception
              \* left run()), "stopped" (run() returned)
  local,      \* this pass's get_local_files(): rel -> [size, mtime]
  remote_entries,   \* this pass's remote_entries
  rmap,       \* this pass's remote: name -> id
  quarantined_names,     \* this pass's get_quarantined_names()
  passNow,    \* this pass's now
  prev,       \* StateStore mapping as the pass found it
  wasEnabled, \* StateStore.enabled as the pass found it
  stable,     \* this pass's stable
  to_upload, to_add, to_delete,   \* the three queues
  iU, iA, iD, \* next index into each queue
  log,        \* the requests this pass issued after the listing, in order
  fails,      \* how many requests the remote failed so far
  rejected,   \* the paths whose upload was permanently rejected and whose file
              \* the writers have not touched since
  edits,      \* how many times the writers changed the watched directory
  stop,       \* Syncer._stop_requested
  first,      \* run() has not yet got its first sync_once back
  data_is_mapping,  \* StateStore.data is a dict whose "files" is a dict
  net,        \* one call of _request, upload_file or add_to_knowledge, seen
              \* at its HTTP attempts
  disk,       \* the state file on disk across save(), a crash and _load
  pager       \* one call of get_remote_items, seen at its page requests

vars == <<fs, qfiles, sidecars, now, remote, nextId, idFp, st, enabled, pc,
          local, remote_entries, rmap, quarantined_names, passNow, prev, wasEnabled, stable,
          to_upload, to_add, to_delete, iU, iA, iD, log, fails, rejected, edits, wrote,
          stop, first, data_is_mapping, net, disk, pager>>

\* The components that are followed on their own.
compVars == <<net, disk, pager>>

\* What run() and the StateStore hold besides the pass.
runVars == <<stop, first, data_is_mapping>>

passVars == <<local, remote_entries, rmap, quarantined_names, passNow, prev, wasEnabled, stable,
              to_upload, to_add, to_delete>>

\* ------------------------------------------------------------- dictionaries
Empty == [k \in {} |-> None]
\* dict[k] = v
Put(m, k, v) == [j \in DOMAIN m \cup {k} |-> IF j = k THEN v ELSE m[j]]
\* dict.pop(k, None)
Pop(m, k) == [j \in DOMAIN m \ {k} |-> m[j]]

\* {} as a SyncState: every .get() answers None (added: .get("added", False)).
NoState ==
  [size |-> None, mtime |-> None, file_id |-> None, added |-> FALSE,
   uploaded_size |-> None, uploaded_mtime |-> None, blocked_reason |-> FALSE,
   blocked_size |-> None, blocked_mtime |-> None, replace_id |-> None]

\* StateStore.get
Get(m, rel) == IF rel \in DOMAIN m THEN m[rel] ELSE NoState
\* `if self.state.enabled: self.state.set(rel, state)` on a dict obtained from
\* StateStore.get: a stored dict is mutated in place whatever `enabled` is, a
\* fresh {} reaches the store only through set().
Store(m, en, rel, s) == IF rel \in DOMAIN m \/ en THEN Put(m, rel, s) ELSE m

Fp(size, mtime) == [size |-> size, mtime |-> mtime]

\* ------------------------------------------------------------- StateStore
\* What _load finds at state_path: no file, a file that is no JSON document,
\* a falsy JSON value (null, [], {}, 0), a JSON object with a "files" object
\* or none, a JSON object whose "files" is no object, another truthy JSON
\* value (a non-empty list, a number, a string).
StateFiles == {"missing", "unparseable", "empty", "object", "badfiles", "nonobject"}
\* _load (lines 53-62): every exception disables the store; json.load raises
\* on an unparseable file, lines 58-59 raise TypeError on a value that is no
\* dict.
LoadEnabled(found) == found \in {"missing", "empty", "object", "badfiles"}
\* _load: self.data is left a dict with a "files" dict, unless json.load
\* returned a truthy value that is no dict (line 57) or a dict whose "files"
\* is no dict.
LoadIsMapping(found) == found \notin {"badfiles", "nonobject"}

\* ------------------------------------------------------------- HTTP calls
\* session.request raised requests.RequestException (no status code).
TransportError == 0
\* The status codes the remote answers with.
Statuses == {200, 201, 202, 204, 400, 401, 404, 413, 415, 422, 429, 500, 503}
Outcomes == Statuses \cup {TransportError}
\* line 160
retry_statuses == {429, 500, 502, 503, 504}
MayRetryOnLast(attempt, retries) == attempt < retries
\* lines 165, 171, 425, 430: `attempt < self.retries - 1`
MayRetry(attempt, retries) == attempt < retries - 1
\* Response.raise_for_status raises HTTPError for 4xx and 5xx.
RaisesForStatus(status) == status \in 400..599
PermanentWithout422(status_code) == status_code \in {400, 413, 415}
\* line 209
is_permanent_upload_status(status_code) == status_code \in {400, 413, 415, 422}
\* lines 438-444: the body shapes, by their keys
payloads == <<"file_id", "file_ids", "file_id+metadata", "file_ids+metadatas",
              "file_id+metadatas+metadata">>
\* line 448, line 450
AddAccepted == {200, 201, 204}
AddRejected == {400, 404, 422}
\* What a 2xx upload response carries (line 415): a JSON object with an id,
\* a JSON object without one, a JSON value that is no object.
Bodies == {"id", "noid", "nonobject"}
Calls == {"request", "upload", "add"}

\* _request (lines 162-177) after the attempt of index `attempt` ended in
\* `outcome`: "continue" with the next attempt, "return" the response,
\* "raise" the transport exception; when the loop runs out (lines 175-177)
\* "raise" last_exc if one was kept, else "runtime" (RuntimeError).
AfterAttempt(attempt, retries, outcome, last_exc) ==
  LET again == MayRetry(attempt, retries)
      inLoop == IF outcome = TransportError
                  THEN IF again THEN "continue" ELSE "raise"
                  ELSE IF outcome \in retry_statuses /\ again THEN "continue" ELSE "return"
  IN IF inLoop = "continue" /\ attempt + 1 >= retries
       THEN IF last_exc \/ outcome = TransportError THEN "raise" ELSE "runtime"
       ELSE inLoop

\* A call that has sent nothing yet.
NetStart(call, retries) ==
  [call |-> call,          \* which function was called
   retries |-> retries,    \* self.retries
   attempt |-> 0,          \* _request's loop variable
   last_exc |-> FALSE,     \* _request holds a last_exc
   outer |-> 0,            \* upload_file's loop variable, or the index of
                           \* add_to_knowledge's payload
   sent |-> 0,             \* HTTP requests sent by the call so far
   last |-> None,          \* how the last HTTP request ended (an Outcome)
   shapes |-> <<>>,        \* the payloads add_to_knowledge has sent, in order
   got2xx |-> FALSE,       \* a payload was answered with a 2xx status
   last_error |-> None,    \* add_to_knowledge's last_error, by its status
   code |-> None,          \* PermanentUploadError.status_code
   result |-> "running"]   \* how the call ended
NetIdle == [NetStart("none", 1) EXCEPT !.result = "idle"]

\* ------------------------------------------------------------- state file
\* The versions the in-memory mapping goes through, version 0 being the
\* empty mapping {"files": {}}; the number of pieces json.dump writes a
\* document in; how often the process is killed.
MaxVersion == 2
DocLen == 2
MaxCrashes == 2

\* The process has just started on a state file holding the first `len`
\* pieces of the document of version `ver` (ver = None: no file).
DiskStart(ver, len) ==
  [phase |-> "down",     \* "down" (no process), "running", "saving" (inside
                         \* the with block of lines 69-70)
   mem |-> 0,            \* the version of StateStore.data
   enabled |-> TRUE,     \* StateStore.enabled
   file_ver |-> ver,     \* the version of the document in the state file
   file_len |-> len,     \* how many of its pieces the file holds
   pos |-> 0,            \* the write position of the handle of line 69
   old_ver |-> None,     \* the complete document the file held when the
                         \* save in progress began (None: none)
   in_save |-> FALSE,    \* the process was killed inside save()
   crashes |-> 0]
DiskIdle == [DiskStart(None, 0) EXCEPT !.phase = "idle"]
\* The file holds a whole document.
Complete(d) == d.file_ver # None /\ d.file_len = DocLen
\* _load, lines 53-62: no file gives the empty mapping; a whole document is
\* loaded; json.load raises on an empty or truncated file, which disables
\* the store and leaves the empty mapping of line 49.
Load(d) ==
  IF d.file_ver = None
    THEN [d EXCEPT !.mem = 0, !.enabled = TRUE]
    ELSE IF Complete(d)
           THEN [d EXCEPT !.mem = d.file_ver, !.enabled = TRUE]
           ELSE [d EXCEPT !.mem = 0, !.enabled = FALSE]

\* ---------------------------------------------------------- remote listing
\* The page cap of line 387 (1000 in the program), counted in pages.
page_limit == 3
\* The ids of the listed items, the longest page, the largest declared total.
MaxItemId == 2
MaxPageLen == 2
MaxTotal == 4
\* The `items` lists a page can carry.
Pages == UNION {[1..n -> 1..MaxItemId] : n \in 0..MaxPageLen}
\* What a page declares as `total` (None: nothing, or the payload is a list).
Totals == {None} \cup 0..MaxTotal
\* How a page request ends: a payload whose items are a list ("page"), a
\* payload whose items are no list ("notalist"), an exception of _request or
\* of raise_for_status ("error").
PageKinds == {"page", "notalist", "error"}
\* lines 373-377: (len(items), first id, last id)
Signature(items) == <<Len(items), items[1], items[Len(items)]>>
PageCapOffByOne(page) == page > page_limit + 1
\* line 387: `if page > 1000`
PageCapReached(page) == page > page_limit
\* lines 342-345
PagerStart ==
  [page |-> 1,               \* the page number of the next request
   out |-> <<>>,             \* the ids of the items collected
   total |-> None,           \* the declared total
   last_signature |-> <<>>,  \* the signature of the last page appended
                             \* (<<>>: Python's None)
   requests |-> 0,           \* page requests made
   kind |-> "none",          \* how the last page request ended
   items |-> <<>>,           \* the items of the last page received
   result |-> "running"]     \* "running", "returned" or "raised"
PagerIdle == [PagerStart EXCEPT !.result = "idle"]

\* ------------------------------------------------------------ environment
SyncInit ==
  /\ fs = Empty
  /\ qfiles = {}
  /\ sidecars = {}
  /\ now = 0
  /\ remote \in SUBSET InitRemote
  /\ nextId = FirstFreshId
  /\ idFp = Empty
  /\ st = Empty
  /\ \E found \in StateFiles :
       /\ enabled = LoadEnabled(found)
       /\ data_is_mapping = LoadIsMapping(found)
  /\ stop = FALSE
  /\ first = TRUE
  /\ wrote = FALSE
  /\ pc = "idle"
  /\ local = Empty
  /\ remote_entries = {}
  /\ rmap = Empty
  /\ quarantined_names = {}
  /\ passNow = None
  /\ prev = Empty
  /\ wasEnabled = FALSE
  /\ stable = {}
  /\ to_upload = <<>>
  /\ to_add = <<>>
  /\ to_delete = <<>>
  /\ iU = 1
  /\ iA = 1
  /\ iD = 1
  /\ log = <<>>
  /\ fails = 0
  /\ rejected = {}
  /\ edits = 0

Init ==
  /\ SyncInit
  /\ net = NetIdle
  /\ disk = DiskIdle
  /\ pager = PagerIdle

\* The clock advances.
Tick ==
  /\ pc = "idle"
  /\ now < MaxTime
  /\ now' = now + 1
  /\ UNCHANGED <<fs, qfiles, sidecars, remote, nextId, idFp, st, enabled, pc,
                 passVars, iU, iA, iD, log, fails, rejected, edits, wrote, runVars,
                 compVars>>

\* A writer creates or rewrites a file of the watched directory.
WriteFile ==
  \E rel \in Rels, size \in Sizes :
    /\ pc = "idle"
    /\ ~(rel \in DOMAIN fs /\ fs[rel] = Fp(size, now))
    /\ edits < MaxEdits
    /\ edits' = edits + 1
    /\ fs' = Put(fs, rel, Fp(size, now))
    /\ rejected' = rejected \ {rel}
    /\ UNCHANGED <<qfiles, sidecars, now, remote, nextId, idFp, st, enabled, pc,
                   passVars, iU, iA, iD, log, fails, wrote, runVars,
                 compVars>>

\* A file of the watched directory is removed.
RemoveFile ==
  \E rel \in DOMAIN fs :
    /\ pc \notin {"crashed", "stopped"}
    /\ edits < MaxEdits
    /\ edits' = edits + 1
    /\ fs' = Pop(fs, rel)
    /\ rejected' = rejected \ {rel}
    /\ UNCHANGED <<qfiles, sidecars, now, remote, nextId, idFp, st, enabled, pc,
                   passVars, iU, iA, iD, log, fails, wrote, runVars,
                 compVars>>

\* ------------------------------------------------- sync_once: classification
\* name_counts / duplicate_names (lines 491-494)
NameCount(loc, name) == Cardinality({r \in DOMAIN loc : Name(r) = name})
duplicate_names(loc) == {Name(r) : r \in {q \in DOMAIN loc : NameCount(loc, Name(q)) > 1}}
\* get_quarantined_names: the basenames of the files under failed_dir that are
\* not sidecars.
get_quarantined_names(q) == {Basename(Candidate(e[1], e[2])) : e \in q}
\* local_names without the names found in the quarantine folder.
local_names_of_scan_only(loc, q) == {Name(r) : r \in DOMAIN loc}

\* local_names (line 496)
local_names(loc, q) == {Name(r) : r \in DOMAIN loc} \cup get_quarantined_names(q)

\* lines 498-501
Prune(m, en, loc) == IF en THEN [r \in DOMAIN m \cap DOMAIN loc |-> m[r]] ELSE m

\* line 504: same = prev and prev.size == meta.size and prev.mtime == meta.mtime
Same(m, rel, meta) ==
  /\ rel \in DOMAIN m
  /\ m[rel].size = meta.size
  /\ m[rel].mtime = meta.mtime

\* IsStable with the comparison against the recorded fingerprint left out:
\* age alone decides, as if the store were disabled.
IsStableByAgeAlone(m, en, rel, meta, t) == t - meta.mtime >= stable_age_seconds

\* lines 505-509
IsStable(m, en, rel, meta, t) ==
  \/ en /\ Same(m, rel, meta) /\ t - meta.mtime >= stable_age_seconds
  \/ ~en /\ t - meta.mtime >= stable_age_seconds

\* lines 510-528: the record written for a local path
Classify(p, meta) ==
  LET changed == p.blocked_reason
                 /\ (p.blocked_size # meta.size \/ p.blocked_mtime # meta.mtime)
  IN [size |-> meta.size, mtime |-> meta.mtime,
      file_id |-> p.file_id, added |-> p.added,
      uploaded_size |-> p.uploaded_size, uploaded_mtime |-> p.uploaded_mtime,
      blocked_reason |-> IF changed THEN FALSE ELSE p.blocked_reason,
      blocked_size |-> IF changed THEN None ELSE p.blocked_size,
      blocked_mtime |-> IF changed THEN None ELSE p.blocked_mtime,
      replace_id |-> None]

\* lines 502-530: the store after the classification loop
Classified(m, en, loc) ==
  IF en THEN [r \in DOMAIN loc |-> Classify(Get(m, r), loc[r])] ELSE m

\* to_delete (lines 532-536), as the set of its entries
ToDelete(entries, names) ==
  IF names = {} /\ entries # {} THEN entries
  ELSE {e \in entries : e.name \notin names}

\* lines 549-553
uploaded_matches(s, meta) ==
  /\ s.uploaded_size = meta.size
  /\ s.uploaded_mtime = meta.mtime
  /\ s.added

\* lines 554-563: what the decision loop leaves in the path's record
Decided(s, meta, name, rm) ==
  IF name \in DOMAIN rm /\ uploaded_matches(s, meta)
    THEN [s EXCEPT !.file_id = rm[name], !.added = TRUE]
  ELSE IF name \in DOMAIN rm
    THEN [s EXCEPT !.replace_id = rm[name]]
  ELSE s

\* The decision loop without its duplicate-name test (lines 541-543).
VerdictIgnoringDuplicates(s, meta, name, rm, dups) ==
  IF s.blocked_reason THEN "blocked"
  ELSE IF name \in DOMAIN rm /\ uploaded_matches(s, meta) THEN "synced"
  ELSE IF Decided(s, meta, name, rm).file_id # None
          /\ ~Decided(s, meta, name, rm).added THEN "add"
  ELSE "upload"

\* The decision loop without the `continue` of line 559: an already synced
\* path falls through to the queues.
VerdictWithoutSynced(s, meta, name, rm, dups) ==
  IF name \in dups THEN "duplicate"
  ELSE IF s.blocked_reason THEN "blocked"
  ELSE IF Decided(s, meta, name, rm).file_id # None
          /\ ~Decided(s, meta, name, rm).added THEN "add"
  ELSE "upload"

\* lines 540-567: the branch the decision loop takes for a stable path
Verdict(s, meta, name, rm, dups) ==
  IF name \in dups THEN "duplicate"
  ELSE IF s.blocked_reason THEN "blocked"
  ELSE IF name \in DOMAIN rm /\ uploaded_matches(s, meta) THEN "synced"
  ELSE IF Decided(s, meta, name, rm).file_id # None
          /\ ~Decided(s, meta, name, rm).added THEN "add"
  ELSE "upload"

\* The store after the decision loop: a record obtained from get() is changed
\* in place; a fresh {} is stored only by set(), which `enabled` guards.
AfterDecision(m, en, loc, stab, rm) ==
  [r \in DOMAIN m |->
     IF r \in stab
        /\ Verdict(m[r], loc[r], Name(r), rm, duplicate_names(loc))
             \in {"synced", "add", "upload"}
       THEN Decided(m[r], loc[r], Name(r), rm)
       ELSE m[r]]

\* The elements of seq that satisfy Keep, in order.
RECURSIVE Filter(_, _)
Filter(seq, keep) ==
  IF seq = <<>> THEN <<>>
  ELSE (IF Head(seq) \in keep THEN <<Head(seq)>> ELSE <<>>) \o Filter(Tail(seq), keep)

\* A set of remote entries as the list the listing returned them in (by id).
RECURSIVE ById(_)
ById(S) ==
  IF S = {} THEN <<>>
  ELSE LET e == CHOOSE a \in S : \A b \in S : a.id <= b.id
       IN <<e>> \o ById(S \ {e})

\* StateStore.save(): a no-op when disabled; a failed write disables the store.
SaveEnabled(en, ok) == en /\ ok
SaveWrote(en, ok) == en /\ ok

\* line 571: `if not to_upload and not to_delete:` save and return
EarlyReturn(up, add, del) == up = <<>> /\ del = <<>>

\* ------------------------------------------------------ sync_once: the pass
\* A request the pass issued: op is "upload", "attach", "replace_delete" (the
\* delete_remote of lines 680 and 722) or "delete" (the deletion queue's);
\* res is what the remote did to it; q is what the filesystem did to the
\* quarantine_file call that followed it ("-": none followed).
Req(op, rel, name, id, res, q) ==
  [op |-> op, rel |-> rel, name |-> name, id |-> id, res |-> res, q |-> q]
NoRel == "-"
\* The requests of rs that the remote did not answer with success.
Cost(rs) == Cardinality({k \in DOMAIN rs : rs[k].res # "ok"})

\* self.remote built at lines 478-488: for a name listed more than once the
\* entry listed last wins; the listing order is the remote's choice.
RemoteMaps(R) ==
  {f \in [{e.name : e \in R} -> {e.id : e \in R}] :
     \A n \in DOMAIN f : [name |-> n, id |-> f[n]] \in R}

ListFailedAsEmptyScan(m, en, loc) == Prune(m, en, Empty)
\* lines 475-477: the store a pass leaves when its listing failed; the
\* function returns before the prune of lines 498-501 looks at the scan.
ListFailed(m, en, loc) == m

\* lines 471-477: the listing raised requests.RequestException
ListFail ==
  /\ pc = "idle"
  /\ fails < MaxFails
  /\ fails' = fails + 1
  /\ pc' = "returned"
  /\ st' = ListFailed(st, enabled, fs)
  /\ UNCHANGED <<fs, qfiles, sidecars, now, remote, nextId, idFp, enabled,
                 passVars, iU, iA, iD, log, rejected, edits, wrote, runVars,
                 compVars>>

\* lines 499, 503: the listing succeeded and self.data is no dict with a
\* "files" dict. With the store enabled the prune calls keys() on what is
\* no dict; with a scanned file StateStore.get subscripts or calls get on
\* what is no dict. The TypeError or AttributeError leaves sync_once.
GetRaises ==
  /\ pc = "idle"
  /\ ~data_is_mapping
  /\ enabled \/ fs # Empty
  /\ pc' = "raised"
  /\ UNCHANGED <<fs, qfiles, sidecars, now, remote, nextId, idFp, st, enabled,
                 passVars, iU, iA, iD, log, fails, rejected, edits, wrote, runVars,
                 compVars>>

\* lines 471-586: scan, list, prune, classify, build the queues; with nothing
\* to upload and nothing to delete, save and return.
PassBegin ==
  /\ pc = "idle"
  /\ data_is_mapping \/ (~enabled /\ fs = Empty)
  /\ \E rm \in RemoteMaps(remote), saveOk \in BOOLEAN :
       LET names == local_names(fs, qfiles)
           st0 == Prune(st, enabled, fs)
           stab == {r \in DOMAIN fs : IsStable(st0, enabled, r, fs[r], now)}
           st1 == Classified(st0, enabled, fs)
           dups == duplicate_names(fs)
           verdict(r) == Verdict(Get(st1, r), fs[r], Name(r), rm, dups)
           st2 == AfterDecision(st1, enabled, fs, stab, rm)
           up == Filter(RelOrder, {r \in stab : verdict(r) = "upload"})
           addRels == Filter(RelOrder, {r \in stab : verdict(r) = "add"})
           add == [i \in 1..Len(addRels) |->
                     [rel |-> addRels[i],
                      file_id |-> Decided(Get(st1, addRels[i]), fs[addRels[i]],
                                          Name(addRels[i]), rm).file_id]]
           del == ById(ToDelete(remote, names))
       IN /\ local' = fs
          /\ remote_entries' = remote
          /\ rmap' = rm
          /\ quarantined_names' = get_quarantined_names(qfiles)
          /\ passNow' = now
          /\ prev' = st
          /\ wasEnabled' = enabled
          /\ stable' = stab
          /\ to_upload' = up
          /\ to_add' = add
          /\ to_delete' = del
          /\ iU' = 1 /\ iA' = 1 /\ iD' = 1
          /\ log' = <<>>
          /\ st' = st2
          /\ IF EarlyReturn(up, add, del)
               THEN /\ pc' = "returned"
                    /\ enabled' = SaveEnabled(enabled, saveOk)
                    /\ wrote' = SaveWrote(enabled, saveOk)
               ELSE /\ pc' = "upload"
                    /\ wrote' = FALSE
                    /\ UNCHANGED enabled
  /\ UNCHANGED <<fs, qfiles, sidecars, now, remote, nextId, idFp, fails, rejected, edits,
                 runVars,
                 compVars>>

\* _mark_blocked_file (lines 229-239)
mark_blocked_file(m, en, rel, meta) ==
  IF ~en THEN m
  ELSE Put(m, rel, [Get(m, rel) EXCEPT !.blocked_reason = TRUE,
                                       !.blocked_size = meta.size,
                                       !.blocked_mtime = meta.mtime,
                                       !.file_id = None,
                                       !.added = FALSE,
                                       !.replace_id = None])

\* What the filesystem does to quarantine_file: the move and the sidecar are
\* written ("moved"), _ensure_failed_dir fails ("nodir"), makedirs or the move
\* raises OSError ("oserr"), the sidecar cannot be written after the move
\* ("nosidecar").
QOutcomes == {"moved", "nodir", "oserr", "nosidecar"}

\* lines 271-276: the suffix of the first candidate that does not exist
\* (0: dest itself)
FreeSuffix(rel, Q) ==
  LET taken(n) == \E e \in Q : Candidate(e[1], e[2]) = Candidate(rel, n)
  IN CHOOSE n \in 0..Cardinality(Q) : ~taken(n) /\ \A k \in 0..(n - 1) : taken(k)

\* quarantine_file (lines 257-297): [ret, fs, qfiles, sidecars, st]
quarantine_file(rel, meta, qo, F, Q, S, m, en) ==
  IF InFailedDir(rel)
    THEN [ret |-> TRUE, fs |-> F, qfiles |-> Q, sidecars |-> S, st |-> m]
  ELSE IF qo \in {"nodir", "oserr"}
    THEN [ret |-> FALSE, fs |-> F, qfiles |-> Q, sidecars |-> S,
          st |-> mark_blocked_file(m, en, rel, meta)]
  ELSE IF rel \notin DOMAIN F
    THEN [ret |-> FALSE, fs |-> F, qfiles |-> Q, sidecars |-> S,
          st |-> IF en THEN Pop(m, rel) ELSE m]
  ELSE IF qo = "nosidecar"
    THEN [ret |-> FALSE, fs |-> Pop(F, rel),
          qfiles |-> Q \cup {<<rel, FreeSuffix(rel, Q)>>}, sidecars |-> S,
          st |-> mark_blocked_file(m, en, rel, meta)]
  ELSE [ret |-> TRUE, fs |-> Pop(F, rel),
        qfiles |-> Q \cup {<<rel, FreeSuffix(rel, Q)>>},
        sidecars |-> S \cup {<<rel, FreeSuffix(rel, Q)>>},
        st |-> IF en THEN Pop(m, rel) ELSE m]

\* The remote after POST file/add and after POST file/remove took effect.
Attached(R, name, id) == R \cup {[name |-> name, id |-> id]}
Removed(R, id) == {e \in R : e.id # id}

\* What the remote does to a request: "ok"; "fail" (an error status or a
\* transport error, nothing changed); "lost" (the request took effect and the
\* response did not arrive).  An upload can also be rejected for good
\* ("perm": 400/413/415/422); an attach can be refused with a format-looking
\* detail ("format") or another one ("rejected").
AttachOutcomes == {"ok", "rejected", "format", "fail", "lost"}
DeleteOutcomes == {"ok", "fail", "lost"}

\* lines 676-685 and 718-727, after the record s was written with added=true:
\* [st, remote, reqs]
ReplaceDelete(m, en, rel, s, R, do) ==
  IF en /\ s.replace_id # None
    THEN [st |-> IF do = "ok" THEN Put(m, rel, [s EXCEPT !.replace_id = None]) ELSE m,
          remote |-> IF do \in {"ok", "lost"} THEN Removed(R, s.replace_id) ELSE R,
          reqs |-> <<Req("replace_delete", rel, Name(rel), s.replace_id, do, "-")>>]
    ELSE [st |-> m, remote |-> R, reqs |-> <<>>]

\* lines 644-651: the record after a successful upload returned `id`
AfterUpload(s, id) ==
  [s EXCEPT !.file_id = id, !.added = FALSE, !.blocked_reason = FALSE,
            !.blocked_size = None, !.blocked_mtime = None]

UploadAttachedWithoutFingerprint(s, meta) == [s EXCEPT !.added = TRUE]
\* lines 673-675: the upload loop's record after a successful attach
UploadAttached(s, meta) ==
  [s EXCEPT !.added = TRUE, !.uploaded_size = meta.size, !.uploaded_mtime = meta.mtime]

\* lines 711-717: the attach-only loop's record after a successful attach
AddAttached(s, meta) ==
  [s EXCEPT !.added = TRUE, !.uploaded_size = meta.size, !.uploaded_mtime = meta.mtime,
            !.blocked_reason = FALSE, !.blocked_size = None, !.blocked_mtime = None]

\* add_to_knowledge(id) and what follows it, lines 652-685 of the upload loop
\* and 698-736 of the attach-only loop, from the store m; s2 is the record
\* the loop writes when the attach succeeded:
\* [fs, qfiles, sidecars, st, remote, reqs]
Attach(rel, meta, id, s2, m, ao, qo, do) ==
  LET name == Name(rel)
  IN IF ao = "ok"
       THEN LET rd == ReplaceDelete(Store(m, enabled, rel, s2), enabled, rel, s2,
                                    Attached(remote, name, id), do)
            IN [fs |-> fs, qfiles |-> qfiles, sidecars |-> sidecars,
                st |-> rd.st, remote |-> rd.remote,
                reqs |-> <<Req("attach", rel, name, id, "ok", "-")>> \o rd.reqs]
     ELSE IF ao = "format"
       THEN LET q == quarantine_file(rel, meta, qo, fs, qfiles, sidecars, m, enabled)
            IN [fs |-> q.fs, qfiles |-> q.qfiles, sidecars |-> q.sidecars,
                st |-> q.st, remote |-> remote,
                reqs |-> <<Req("attach", rel, name, id, ao, qo)>>]
     ELSE [fs |-> fs, qfiles |-> qfiles, sidecars |-> sidecars, st |-> m,
           remote |-> IF ao = "lost" THEN Attached(remote, name, id) ELSE remote,
           reqs |-> <<Req("attach", rel, name, id, ao, "-")>>]

\* lines 601-690: one iteration of the upload loop
UploadItem ==
  /\ pc = "upload"
  /\ ~stop
  /\ iU <= Len(to_upload)
  /\ iU' = iU + 1
  /\ stop' \in BOOLEAN      \* a signal may arrive while the item is processed
  /\ LET rel == to_upload[iU]
         meta == local[rel]
     IN \/ \* open(fullpath) raises: the file is gone
           /\ rel \notin DOMAIN fs
           /\ UNCHANGED <<fs, qfiles, sidecars, remote, nextId, idFp, st, log, fails,
                          rejected, pc>>
        \/ \* the upload fails after its retries
           /\ rel \in DOMAIN fs
           /\ fails < MaxFails
           /\ fails' = fails + 1
           /\ log' = Append(log, Req("upload", rel, Name(rel), None, "fail", "-"))
           /\ UNCHANGED <<fs, qfiles, sidecars, remote, nextId, idFp, st, rejected, pc>>
        \/ \* line 415: a 2xx response whose JSON body is no object (null, a
           \* list); resp.json().get raises AttributeError, which neither
           \* upload_file nor sync_once (line 636) catches
           /\ rel \in DOMAIN fs
           /\ fails < MaxFails
           /\ fails' = fails + 1
           /\ log' = Append(log, Req("upload", rel, Name(rel), None, "malformed", "-"))
           /\ pc' = "raised"
           /\ UNCHANGED <<fs, qfiles, sidecars, remote, nextId, idFp, st, rejected>>
        \/ \* PermanentUploadError: quarantine_file
           /\ rel \in DOMAIN fs
           /\ fails < MaxFails
           /\ fails' = fails + 1
           /\ \E qo \in QOutcomes :
                LET q == quarantine_file(rel, meta, qo, fs, qfiles, sidecars, st, enabled)
                IN /\ fs' = q.fs
                   /\ qfiles' = q.qfiles
                   /\ sidecars' = q.sidecars
                   /\ st' = q.st
                   /\ log' = Append(log, Req("upload", rel, Name(rel), None, "perm", qo))
           /\ rejected' = rejected \cup {rel}
           /\ UNCHANGED <<remote, nextId, idFp, pc>>
        \/ \* the upload returns an id; add_to_knowledge follows
           /\ rel \in DOMAIN fs
           /\ nextId <= MaxId
           /\ nextId' = nextId + 1
           /\ idFp' = Put(idFp, nextId, fs[rel])
           /\ \E ao \in AttachOutcomes, qo \in QOutcomes, do \in DeleteOutcomes :
                LET s1 == AfterUpload(Get(st, rel), nextId)
                    r == Attach(rel, meta, nextId, UploadAttached(s1, meta),
                                Store(st, enabled, rel, s1), ao, qo, do)
                IN /\ fails + Cost(r.reqs) <= MaxFails
                   /\ fails' = fails + Cost(r.reqs)
                   /\ fs' = r.fs
                   /\ qfiles' = r.qfiles
                   /\ sidecars' = r.sidecars
                   /\ st' = r.st
                   /\ remote' = r.remote
                   /\ log' = Append(log, Req("upload", rel, Name(rel), nextId, "ok", "-"))
                             \o r.reqs
           /\ UNCHANGED <<rejected, pc>>
  /\ UNCHANGED <<now, enabled, passVars, iA, iD, edits, wrote, first, data_is_mapping,
                 compVars>>

\* lines 601-604: the upload loop is over, or the stop flag breaks it
UploadDone ==
  /\ pc = "upload"
  /\ iU > Len(to_upload) \/ stop
  /\ pc' = "add"
  /\ UNCHANGED <<fs, qfiles, sidecars, now, remote, nextId, idFp, st, enabled,
                 passVars, iU, iA, iD, log, fails, rejected, edits, wrote, runVars,
                 compVars>>

\* lines 694-742: one iteration of the attach-only loop
AddItem ==
  /\ pc = "add"
  /\ ~stop
  /\ iA <= Len(to_add)
  /\ iA' = iA + 1
  /\ stop' \in BOOLEAN
  /\ \E ao \in AttachOutcomes, qo \in QOutcomes, do \in DeleteOutcomes :
       LET rel == to_add[iA].rel
           r == Attach(rel, local[rel], to_add[iA].file_id,
                       AddAttached(Get(st, rel), local[rel]), st, ao, qo, do)
       IN /\ fails + Cost(r.reqs) <= MaxFails
          /\ fails' = fails + Cost(r.reqs)
          /\ fs' = r.fs
          /\ qfiles' = r.qfiles
          /\ sidecars' = r.sidecars
          /\ st' = r.st
          /\ remote' = r.remote
          /\ log' = log \o r.reqs
  /\ UNCHANGED <<now, nextId, idFp, enabled, pc, passVars, iU, iD, rejected, edits, wrote,
                 first, data_is_mapping,
                 compVars>>

\* lines 694-697: the attach-only loop is over, or the stop flag breaks it
AddDone ==
  /\ pc = "add"
  /\ iA > Len(to_add) \/ stop
  /\ pc' = "delete"
  /\ UNCHANGED <<fs, qfiles, sidecars, now, remote, nextId, idFp, st, enabled,
                 passVars, iU, iA, iD, log, fails, rejected, edits, wrote, runVars,
                 compVars>>

\* lines 748-763: one iteration of the deletion loop
DeleteItem ==
  /\ pc = "delete"
  /\ ~stop
  /\ iD <= Len(to_delete)
  /\ iD' = iD + 1
  /\ stop' \in BOOLEAN
  /\ \E do \in DeleteOutcomes :
       /\ fails + (IF do = "ok" THEN 0 ELSE 1) <= MaxFails
       /\ fails' = fails + (IF do = "ok" THEN 0 ELSE 1)
       /\ remote' = IF do \in {"ok", "lost"} THEN Removed(remote, to_delete[iD].id)
                    ELSE remote
       /\ log' = Append(log, Req("delete", NoRel, to_delete[iD].name, to_delete[iD].id,
                                 do, "-"))
  /\ UNCHANGED <<fs, qfiles, sidecars, now, nextId, idFp, st, enabled, pc,
                 passVars, iU, iA, rejected, edits, wrote, first, data_is_mapping,
                 compVars>>

\* lines 748-751, 765-788: the deletion loop is over, or the stop flag
\* breaks it; save and return
Finish ==
  /\ pc = "delete"
  /\ iD > Len(to_delete) \/ stop
  /\ pc' = "returned"
  /\ \E saveOk \in BOOLEAN :
       /\ enabled' = SaveEnabled(enabled, saveOk)
       /\ wrote' = SaveWrote(enabled, saveOk)
  /\ UNCHANGED <<fs, qfiles, sidecars, now, remote, nextId, idFp, st,
                 passVars, iU, iA, iD, log, fails, rejected, edits, runVars,
                 compVars>>

\* The pass's locals once sync_once is left.
PassLocalsGone ==
  /\ local' = Empty
  /\ remote_entries' = {}
  /\ rmap' = Empty
  /\ quarantined_names' = {}
  /\ passNow' = None
  /\ prev' = Empty
  /\ wasEnabled' = FALSE
  /\ stable' = {}
  /\ to_upload' = <<>>
  /\ to_add' = <<>>
  /\ to_delete' = <<>>
  /\ iU' = 1 /\ iA' = 1 /\ iD' = 1
  /\ log' = <<>>
  /\ wrote' = FALSE

\* run() lines 810-813: the exception of a pass after the first is caught
\* and logged; the loop goes on at line 806.
Caught ==
  /\ pc = "raised"
  /\ ~first
  /\ pc' = "caught"
  /\ UNCHANGED <<fs, qfiles, sidecars, now, remote, nextId, idFp, st, enabled,
                 passVars, iU, iA, iD, log, fails, rejected, edits, wrote, runVars,
                 compVars>>

\* run() line 805: the first sync_once is called outside the try of line
\* 810; its exception is no KeyboardInterrupt and leaves run().
Uncaught ==
  /\ pc = "raised"
  /\ first
  /\ pc' = "crashed"
  /\ UNCHANGED <<fs, qfiles, sidecars, now, remote, nextId, idFp, st, enabled,
                 passVars, iU, iA, iD, log, fails, rejected, edits, wrote, runVars,
                 compVars>>

\* A signal handler (lines 792-797) calls _request_stop.
StopRequest ==
  /\ pc \notin {"crashed", "stopped"}
  /\ ~stop
  /\ stop' = TRUE
  /\ UNCHANGED <<fs, qfiles, sidecars, now, remote, nextId, idFp, st, enabled, pc,
                 passVars, iU, iA, iD, log, fails, rejected, edits, wrote,
                 first, data_is_mapping,
                 compVars>>

\* run() lines 807-808, 816-818: the stop flag is seen after a pass; the
\* state is saved and run() returns.
Exit ==
  /\ pc \in {"returned", "caught"}
  /\ stop
  /\ pc' = "stopped"
  /\ PassLocalsGone
  /\ \E saveOk \in BOOLEAN : enabled' = SaveEnabled(enabled, saveOk)
  /\ first' = FALSE
  /\ UNCHANGED <<fs, qfiles, sidecars, now, remote, nextId, idFp, st,
                 fails, rejected, edits, stop, data_is_mapping,
                 compVars>>

\* run() lines 806-809: sync_once returned and the stop flag is not set; the
\* scheduler sleeps.
Sleep ==
  /\ pc \in {"returned", "caught"}
  /\ ~stop
  /\ pc' = "idle"
  /\ first' = FALSE
  /\ PassLocalsGone
  /\ UNCHANGED <<fs, qfiles, sidecars, now, remote, nextId, idFp, st, enabled,
                 fails, rejected, edits, stop, data_is_mapping,
                 compVars>>

\* ------------------------------------------------------ HTTP call steps
\* The next call of _request made by upload_file or add_to_knowledge.
NextRequest(n) == [n EXCEPT !.outer = @ + 1, !.attempt = 0, !.last_exc = FALSE]
\* The HTTP request is sent and ends in `outcome`.
Sent(n, outcome) ==
  [n EXCEPT !.sent = @ + 1, !.last = outcome,
            !.last_exc = @ \/ outcome = TransportError]

\* _request, lines 159-177: one attempt of a call of _request.
RequestAttempt ==
  /\ net.call = "request"
  /\ net.result = "running"
  /\ \E outcome \in Outcomes :
       LET after == AfterAttempt(net.attempt, net.retries, outcome, net.last_exc)
           n == Sent(net, outcome)
       IN net' = CASE after = "continue" -> [n EXCEPT !.attempt = @ + 1]
                   [] after = "return" -> [n EXCEPT !.result = "returned"]
                   [] after = "raise" -> [n EXCEPT !.result = "raised"]
                   [] OTHER -> [n EXCEPT !.result = "runtime"]
  /\ UNCHANGED <<fs, qfiles, sidecars, now, remote, nextId, idFp, st, enabled, pc,
                 passVars, iU, iA, iD, log, fails, rejected, edits, wrote, runVars, disk, pager>>

\* upload_file, lines 403-434: one HTTP attempt of a call of upload_file and
\* what the code does with its end, up to the next attempt or to the end of
\* the call. Results: "id" (returned), "permanent" (PermanentUploadError),
\* "failed" (requests.HTTPError or another requests.RequestException),
\* "runtime" (RuntimeError), "attribute" (AttributeError of line 415).
UploadAttempt ==
  /\ net.call = "upload"
  /\ net.result = "running"
  /\ \E outcome \in Outcomes, body \in Bodies :
       LET after == AfterAttempt(net.attempt, net.retries, outcome, net.last_exc)
           n == Sent(net, outcome)
           \* lines 425-428, 430-433
           retried == IF MayRetry(net.outer, net.retries)
                        THEN NextRequest(n)
                        ELSE [n EXCEPT !.result = "failed"]
       IN net' = CASE after = "continue" -> [n EXCEPT !.attempt = @ + 1]
                   [] after = "raise" -> retried
                   [] after = "runtime" -> [n EXCEPT !.result = "runtime"]
                   [] OTHER ->
                        IF RaisesForStatus(outcome)
                          THEN IF is_permanent_upload_status(outcome)
                                 THEN [n EXCEPT !.result = "permanent", !.code = outcome]
                                 ELSE retried
                          ELSE CASE body = "id" -> [n EXCEPT !.result = "id"]
                                 [] body = "noid" -> [n EXCEPT !.result = "runtime"]
                                 [] OTHER -> [n EXCEPT !.result = "attribute"]
  /\ UNCHANGED <<fs, qfiles, sidecars, now, remote, nextId, idFp, st, enabled, pc,
                 passVars, iU, iA, iD, log, fails, rejected, edits, wrote, runVars, disk, pager>>

\* add_to_knowledge, lines 436-459: one HTTP attempt of a call of
\* add_to_knowledge and what the code does with its end. Results: "ok"
\* (True, None), "notok" (False, last_error), "raised" (the transport
\* exception of _request leaves the function), "runtime".
AddAttempt ==
  /\ net.call = "add"
  /\ net.result = "running"
  /\ \E outcome \in Outcomes :
       LET after == AfterAttempt(net.attempt, net.retries, outcome, net.last_exc)
           sent == Sent(net, outcome)
           n == [sent EXCEPT !.shapes = IF net.attempt = 0
                                         THEN Append(@, payloads[net.outer + 1])
                                         ELSE @]
           \* the for loop of line 446 goes on, or ends at lines 458-459
           nextShape(m) == IF m.outer + 1 < Len(payloads)
                             THEN NextRequest(m)
                             ELSE [m EXCEPT !.result = "notok"]
       IN net' = CASE after = "continue" -> [n EXCEPT !.attempt = @ + 1]
                   [] after = "raise" -> [n EXCEPT !.result = "raised"]
                   [] after = "runtime" -> [n EXCEPT !.result = "runtime"]
                   [] OTHER ->
                        CASE outcome \in AddAccepted ->
                               [n EXCEPT !.result = "ok", !.got2xx = TRUE]
                          [] outcome \in AddRejected ->
                               nextShape([n EXCEPT !.last_error = outcome])
                          [] outcome \notin AddAccepted \cup AddRejected
                               /\ RaisesForStatus(outcome) ->
                               nextShape([n EXCEPT !.last_error = outcome])
                          [] OTHER ->
                               nextShape([n EXCEPT !.got2xx = @ \/ outcome \in 200..299])
  /\ UNCHANGED <<fs, qfiles, sidecars, now, remote, nextId, idFp, st, enabled, pc,
                 passVars, iU, iA, iD, log, fails, rejected, edits, wrote, runVars, disk, pager>>

\* ----------------------------------------------------- state file steps
SyncUnchanged ==
  UNCHANGED <<fs, qfiles, sidecars, now, remote, nextId, idFp, st, enabled, pc,
              passVars, iU, iA, iD, log, fails, rejected, edits, wrote, runVars>>

\* StateStore.__init__, lines 47-51: the process starts and loads the file.
Restart ==
  /\ disk.phase = "down"
  /\ disk' = [Load(disk) EXCEPT !.phase = "running", !.pos = 0]
  /\ SyncUnchanged /\ UNCHANGED <<net, pager>>

\* set() and delete() during a pass: the mapping changes.
Mutate ==
  /\ disk.phase = "running"
  /\ disk.mem < MaxVersion
  /\ disk' = [disk EXCEPT !.mem = @ + 1]
  /\ SyncUnchanged /\ UNCHANGED <<net, pager>>

\* save(), lines 65-69: with the store enabled the file is opened with mode
\* "w", which truncates it; makedirs or open may raise, which disables the
\* store (lines 71-73).
SaveOpen ==
  /\ disk.phase = "running"
  /\ disk.enabled
  /\ \/ disk' = [disk EXCEPT !.phase = "saving",
                              !.old_ver = IF Complete(disk) THEN disk.file_ver ELSE None,
                              !.file_ver = disk.mem, !.file_len = 0, !.pos = 0]
     \/ disk' = [disk EXCEPT !.enabled = FALSE]
  /\ SyncUnchanged /\ UNCHANGED <<net, pager>>

\* line 70: json.dump writes the next piece of the document into the file,
\* or the write raises (lines 71-73) and the with block closes the file.
SaveWrite ==
  /\ disk.phase = "saving"
  /\ disk.pos < DocLen
  /\ \/ disk' = [disk EXCEPT !.pos = @ + 1, !.file_len = disk.pos + 1]
     \/ disk' = [disk EXCEPT !.phase = "running", !.enabled = FALSE]
  /\ SyncUnchanged /\ UNCHANGED <<net, pager>>

\* lines 69-70: the document is written; the with block closes the file.
SaveClose ==
  /\ disk.phase = "saving"
  /\ disk.pos = DocLen
  /\ disk' = [disk EXCEPT !.phase = "running"]
  /\ SyncUnchanged /\ UNCHANGED <<net, pager>>

\* The process is killed (power loss, SIGKILL), anywhere.
Crash ==
  /\ disk.phase \in {"running", "saving"}
  /\ disk.crashes < MaxCrashes
  /\ disk' = [disk EXCEPT !.phase = "down", !.crashes = @ + 1,
                          !.in_save = disk.phase = "saving"]
  /\ SyncUnchanged /\ UNCHANGED <<net, pager>>

\* ------------------------------------------------------ remote listing
\* get_remote_items, lines 347-390: one turn of the while loop, from the
\* page request to the break or to the next turn.
PageRequest ==
  /\ pager.result = "running"
  /\ \E kind \in PageKinds, items \in Pages, declared \in Totals :
       LET got == [pager EXCEPT !.requests = @ + 1, !.kind = kind,
                                !.items = IF kind = "page" THEN items ELSE <<>>]
           \* lines 359-364
           t == IF pager.total = None THEN declared ELSE pager.total
           appended == [got EXCEPT !.total = t, !.out = @ \o items,
                                   !.last_signature = Signature(items),
                                   !.page = @ + 1]
       IN pager' =
            CASE kind = "error" -> [got EXCEPT !.result = "raised"]
              [] kind = "notalist" -> [got EXCEPT !.total = t, !.result = "returned"]
              [] OTHER ->
                   IF items = <<>> \/ Signature(items) = pager.last_signature
                     THEN [got EXCEPT !.total = t, !.result = "returned"]
                   ELSE IF t # None /\ Len(appended.out) >= t
                     THEN [appended EXCEPT !.result = "returned"]
                   ELSE IF PageCapReached(appended.page)
                     THEN [appended EXCEPT !.result = "returned"]
                   ELSE appended
  /\ SyncUnchanged /\ UNCHANGED <<net, disk>>

Next ==
  \/ Tick
  \/ WriteFile
  \/ RemoveFile
  \/ ListFail
  \/ GetRaises
  \/ PassBegin
  \/ UploadItem
  \/ UploadDone
  \/ AddItem
  \/ AddDone
  \/ DeleteItem
  \/ Finish
  \/ Caught
  \/ Uncaught
  \/ StopRequest
  \/ Exit
  \/ Sleep

Spec == Init /\ [][Next]_vars

\* One call of _request, upload_file or add_to_knowledge with a configured
\* attempt count, against a remote that answers each request in any way.
MaxRetries == 3
NetInit ==
  /\ SyncInit
  /\ remote = {}
  /\ enabled /\ data_is_mapping
  /\ disk = DiskIdle
  /\ pager = PagerIdle
  /\ \E call \in Calls, retries \in 1..MaxRetries : net = NetStart(call, retries)

NetNext ==
  \/ RequestAttempt
  \/ UploadAttempt
  \/ AddAttempt

NetSpec == NetInit /\ [][NetNext]_vars

\* One call of get_remote_items against a remote that answers each page
\* request in any way.
PageInit ==
  /\ SyncInit
  /\ remote = {}
  /\ enabled /\ data_is_mapping
  /\ net = NetIdle
  /\ disk = DiskIdle
  /\ pager = PagerStart

PageNext == PageRequest

PageSpec == PageInit /\ [][PageNext]_vars

\* The StateStore and its file across saves, kills and restarts; the first
\* start finds no file or a whole document.
DiskInit ==
  /\ SyncInit
  /\ remote = {}
  /\ enabled /\ data_is_mapping
  /\ net = NetIdle
  /\ pager = PagerIdle
  /\ disk \in {DiskStart(None, 0)} \cup {DiskStart(v, DocLen) : v \in 0..MaxVersion}

DiskNext ==
  \/ Restart
  \/ Mutate
  \/ SaveOpen
  \/ SaveWrite
  \/ SaveClose
  \/ Crash

DiskSpec == DiskInit /\ [][DiskNext]_vars

\* run() lines 806-818: the scheduler keeps calling sync_once and every loop
\* of a pass runs to its end; the clock advances.
FairSpec ==
  /\ Spec
  /\ WF_vars(Tick)
  /\ WF_vars(PassBegin)
  /\ WF_vars(UploadItem)
  /\ WF_vars(UploadDone)
  /\ WF_vars(AddItem)
  /\ WF_vars(AddDone)
  /\ WF_vars(DeleteItem)
  /\ WF_vars(Finish)
  /\ WF_vars(Caught)
  /\ WF_vars(Uncaught)
  /\ WF_vars(Exit)
  /\ WF_vars(Sleep)

\* ------------------------------------------------------------------ claims
\* sync_once is past its listing: the pass's snapshots and its log are set.
InPass == pc \in {"upload", "add", "delete", "returned"}
\* No other path of this pass's scan has rel's display name.
Unique(rel) == Name(rel) \notin duplicate_names(local)
\* The requests the step appends to the log.
NewReqs == IF Len(log') > Len(log)
             THEN {log'[k] : k \in (Len(log) + 1)..Len(log')}
             ELSE {}

\* C1 -- Replace ordering: a delete request for a path's replace_id is issued
\* only after an attach request of this pass succeeded for that path, and the
\* id it attached was returned by an upload of the content the path has now;
\* the old id is never deleted after a failed upload or attach.
ReplaceOrdering ==
  \A k \in DOMAIN log :
    log[k].op = "replace_delete" =>
      \E j \in 1..(k - 1) :
        /\ log[j].op = "attach"
        /\ log[j].rel = log[k].rel
        /\ log[j].res = "ok"
        /\ log[j].id \in DOMAIN idFp
        /\ idFp[log[j].id] = local[log[k].rel]

\* C2 -- Stability gate: with persistence enabled an upload request is issued
\* for a path only if the fingerprint scanned in this pass equals the one the
\* store held for it when the pass began, and now - mtime >= stable_age_seconds.
StabilityGate ==
  \A k \in DOMAIN log :
    (log[k].op = "upload" /\ wasEnabled) =>
      /\ log[k].rel \in DOMAIN prev
      /\ prev[log[k].rel].size = local[log[k].rel].size
      /\ prev[log[k].rel].mtime = local[log[k].rel].mtime
      /\ passNow - local[log[k].rel].mtime >= stable_age_seconds
\* A pass of an enabled store has issued an upload request.
StabilityGateWitness ==
  /\ wasEnabled
  /\ \E k \in DOMAIN log : log[k].op = "upload"

\* C3 -- Deletion set: the deletion queue holds exactly the remote entries
\* whose name is no local name of this pass's scan and no name found in the
\* quarantine folder (all of them when there is no such name at all), and the
\* deletion loop sends a delete request to no other entry.
DeletionSet ==
  InPass =>
    LET names == {Name(r) : r \in DOMAIN local} \cup quarantined_names
        want == {e \in remote_entries : e.name \notin names}
    IN /\ {to_delete[i] : i \in DOMAIN to_delete} = want
       /\ Len(to_delete) = Cardinality(want)
       /\ names = {} => {to_delete[i] : i \in DOMAIN to_delete} = remote_entries
       /\ \A k \in DOMAIN log :
            log[k].op = "delete" =>
              [name |-> log[k].name, id |-> log[k].id] \in want
\* A pass sent a delete request to one remote entry and kept another whose
\* name is only that of a quarantined file.
DeletionSetWitness ==
  /\ \E k \in DOMAIN log : log[k].op = "delete" /\ log[k].res = "ok"
  /\ \E e \in remote_entries : e.name \in quarantined_names /\ e.name \notin {Name(r) : r \in DOMAIN local}

\* C4 -- Duplicate names: while two local paths share a display name, the pass
\* issues no upload, attach or delete request for that name and deletes no
\* remote entry carrying it.
DuplicateNamesSkipped ==
  \A k \in DOMAIN log :
    /\ log[k].name \notin duplicate_names(local)
    /\ \A e \in remote_entries :
         (e.name \in duplicate_names(local) /\ log[k].op \in {"delete", "replace_delete"})
           => log[k].id # e.id
\* A finished pass saw two stable paths of one name, the name listed
\* remotely, and issued requests for another name.
DuplicateNamesWitness ==
  /\ pc = "returned"
  /\ log # <<>>
  /\ \E r \in stable : Name(r) \in duplicate_names(local) /\ Name(r) \in DOMAIN rmap

\* The store held rel as added with the scanned fingerprint when the pass
\* began, and the listing contains its name.
SyncedAtStart(rel) ==
  /\ rel \in DOMAIN local
  /\ rel \in DOMAIN prev
  /\ prev[rel].added
  /\ prev[rel].uploaded_size = local[rel].size
  /\ prev[rel].uploaded_mtime = local[rel].mtime
  /\ Name(rel) \in DOMAIN rmap

\* C5 -- Idempotence: with persistence enabled, a path the store holds as
\* added with its uploaded fingerprint equal to the scanned one, and whose
\* name the listing contains, gets no upload, attach or delete request; a pass
\* with nothing to upload and nothing to delete issues no request after the
\* listing and still saves the state.
Idempotence ==
  (InPass /\ wasEnabled) =>
    /\ \A rel \in Rels :
         SyncedAtStart(rel) =>
           \A k \in DOMAIN log : log[k].rel # rel /\ log[k].name # Name(rel)
    /\ (pc = "returned" /\ to_upload = <<>> /\ to_delete = <<>>) =>
         /\ log = <<>>
         /\ wrote \/ ~enabled
\* A pass over a synced path had nothing to upload or delete, and saved.
IdempotenceWitness ==
  /\ pc = "returned"
  /\ wasEnabled
  /\ wrote
  /\ to_upload = <<>> /\ to_delete = <<>>
  /\ \E rel \in stable : SyncedAtStart(rel)

\* Calm: the writers and the remote's failures are over, the store is enabled
\* and every file is old enough.  Mirrored: the collection mirrors the directory.
Calm ==
  /\ edits = MaxEdits
  /\ fails = MaxFails
  /\ enabled
  /\ ~stop
  /\ now = MaxTime
  /\ \A r \in DOMAIN fs : now - fs[r].mtime >= stable_age_seconds
Mirrored ==
  /\ \A r \in DOMAIN fs :
       (Name(r) \notin duplicate_names(fs) /\ ~Get(st, r).blocked_reason) =>
         /\ Cardinality({e \in remote : e.name = Name(r)}) = 1
         /\ Get(st, r).added
  /\ \A e \in remote : e.name \in local_names(fs, qfiles)

\* C6 -- Eventual mirroring: with persistence enabled, once the directory has
\* stopped changing (its files old enough to be stable) and the remote fails
\* no further request, the passes lead to a state where every uniquely named
\* local file that is not blocked has exactly one remote entry of its name and
\* is recorded added, and no remote entry is left whose name is neither local
\* nor quarantined.
EventualMirroring == Calm ~> (Mirrored \/ ~enabled \/ stop \/ nextId > MaxId)

\* The pass found rel stable, uniquely named and not blocked, with a file_id
\* whose attach is not confirmed.
AwaitsAttach(rel) ==
  /\ wasEnabled
  /\ rel \in stable
  /\ Unique(rel)
  /\ rel \in DOMAIN prev
  /\ prev[rel].file_id # None
  /\ ~prev[rel].added
  /\ ~prev[rel].blocked_reason

\* C7 -- Attach-only retry: a pass of an enabled store that finds a path stable, uniquely named
\* and not blocked, its state holding file_id with added=false, issues an
\* attach request for that file_id and no upload request for the path; after
\* a successful attach the state is added=true.
AttachOnlyRetry ==
  pc = "returned" =>
    \A rel \in Rels :
      AwaitsAttach(rel) =>
        /\ \E k \in DOMAIN log :
             log[k].op = "attach" /\ log[k].rel = rel /\ log[k].id = prev[rel].file_id
        /\ \A k \in DOMAIN log : ~(log[k].op = "upload" /\ log[k].rel = rel)
        /\ (\E k \in DOMAIN log :
              log[k].op = "attach" /\ log[k].rel = rel /\ log[k].res = "ok")
             => Get(st, rel).added

\* C8 -- Permanent rejection is quarantined: with persistence enabled, after
\* an upload was answered with a permanent status and the quarantine folder
\* took the move and the sidecar, the file is no longer in the watched
\* directory but under the quarantine folder with its sidecar, the path has
\* no state entry, and no attach request was issued for it.
RejectionQuarantined ==
  \A k \in DOMAIN log :
    (log[k].op = "upload" /\ log[k].res = "perm" /\ log[k].q = "moved" /\ wasEnabled) =>
      /\ log[k].rel \notin DOMAIN fs
      /\ \E n \in 0..MaxEdits : <<log[k].rel, n>> \in qfiles \cap sidecars
      /\ log[k].rel \notin DOMAIN st
      /\ \A j \in DOMAIN log : ~(log[j].op = "attach" /\ log[j].rel = log[k].rel)

\* C9 -- No re-upload of a rejected file: with persistence enabled, no step
\* issues an upload request for a path whose upload was answered with a
\* permanent status and whose file has not been touched since.
NoReuploadOfRejected ==
  [][enabled => \A r \in NewReqs : ~(r.op = "upload" /\ r.rel \in rejected)]_vars

\* C10 -- Blocked state clears on change: the pass that finds a blocked path
\* with a size or mtime other than blocked_size/blocked_mtime empties the
\* three blocked fields; while both are equal the fields are carried forward
\* and the path enters no queue.
BlockedClearsOnChange ==
  [][(pc = "idle" /\ pc' # "idle") =>
       \A rel \in DOMAIN fs :
         (rel \in DOMAIN st /\ st[rel].blocked_reason) =>
           IF st[rel].blocked_size # fs[rel].size \/ st[rel].blocked_mtime # fs[rel].mtime
             THEN /\ ~Get(st', rel).blocked_reason
                  /\ Get(st', rel).blocked_size = None
                  /\ Get(st', rel).blocked_mtime = None
             ELSE /\ Get(st', rel).blocked_reason
                  /\ Get(st', rel).blocked_size = st[rel].blocked_size
                  /\ Get(st', rel).blocked_mtime = st[rel].blocked_mtime
                  /\ \A i \in DOMAIN to_upload' : to_upload'[i] # rel
                  /\ \A i \in DOMAIN to_add' : to_add'[i].rel # rel]_vars

\* ------------------------------------------------------------------ C11
InLoops == pc \in {"upload", "add", "delete"}

\* C11: per-file failure isolation. Within one pass no step of the upload
\* loop, the attach-only loop or the deletion loop leaves the pass other
\* than by returning from it; a pass that returns without a stop request
\* has processed every item of its three queues and has reached the final
\* save (with the store enabled the save wrote, or failed and disabled it).
FailureIsolation ==
  [][InLoops =>
       /\ pc' \in {"upload", "add", "delete", "returned"}
       /\ (pc' = "returned" /\ ~stop') =>
            /\ iU' > Len(to_upload')
            /\ iA' > Len(to_add')
            /\ iD' > Len(to_delete')
            /\ enabled => (wrote' \/ ~enabled')]_vars

\* ------------------------------------------------------------------ C12
\* C12: the scheduler survives a failing pass. Whatever pass of run() raises
\* an unexpected exception, the first one included, the exception is caught
\* and the process does not terminate because of it.
SchedulerSurvives == pc # "crashed"

\* ------------------------------------------------------------------ C13
\* C13: cooperative stop inside a pass. Once the stop flag is set, no step
\* of the three loops starts a new item: no request is sent and no loop
\* index advances. A step of a loop during which the flag is set completes
\* its item inside the pass, and the pass ends by returning after its final
\* save (with the store enabled the save wrote, or failed and disabled it).
CooperativeStop ==
  [][/\ (InLoops /\ stop) =>
          /\ NewReqs = {}
          /\ <<iU', iA', iD'>> = <<iU, iA, iD>>
     /\ (InLoops /\ stop') =>
          /\ pc' \in {"upload", "add", "delete", "returned"}
          /\ pc' = "returned" => (enabled => (wrote' \/ ~enabled'))]_vars

\* ------------------------------------------------------------------ C15
\* C15: StateStore degradation. A missing state file gives an enabled store
\* with a mapping. Once a load or a save has failed the store is disabled
\* and stays so; no later save writes; reading the in-memory mapping never
\* raises, so a pass that starts with the store disabled goes on to classify
\* its files (by age alone) instead of raising.
StoreDegradation ==
  [][/\ LoadEnabled("missing") /\ LoadIsMapping("missing")
     /\ ~enabled => (~enabled' /\ ~wrote')
     /\ (~enabled /\ pc = "idle") => pc' # "raised"]_vars

\* ------------------------------------------------------------------ C16
Transient == retry_statuses \cup {TransportError}

\* C16: the RetryExecutor rule. One call of _request makes at least one and
\* at most `retries` attempts; after an attempt a further one follows
\* exactly when that attempt ended in a transport exception or a status of
\* {429, 500, 502, 503, 504} and fewer than `retries` attempts were made;
\* otherwise the call ends: a response, whatever its status, is returned,
\* and the transport exception of the last attempt is raised.
RetryRule ==
  [][net.call = "request" =>
       /\ net.result = "running"
       /\ net'.sent = net.sent + 1
       /\ net'.sent \in 1..net.retries
       /\ net'.result = "running" <=>
            (net'.last \in Transient /\ net'.sent < net.retries)
       /\ net'.result # "running" =>
            net'.result = IF net'.last = TransportError THEN "raised" ELSE "returned"]_vars

\* The last allowed attempt of a call with more than one attempt was
\* answered with a transient status, and that response was returned.
RetryRuleWitness ==
  /\ net.call = "request"
  /\ net.retries > 1
  /\ net.sent = net.retries
  /\ net.last \in retry_statuses
  /\ net.result = "returned"

\* ------------------------------------------------------------------ C17
PermanentStatuses == {400, 413, 415, 422}

\* C17: a permanent upload status is not retried. When an upload request is
\* answered with 400, 413, 415 or 422 the call of upload_file ends at once
\* with PermanentUploadError carrying that status, and an ended call sends
\* nothing more; a request that ends in any other way never ends the call
\* with PermanentUploadError.
PermanentNotRetried ==
  [][net.call = "upload" =>
       /\ net.result = "running"
       /\ net'.last \in PermanentStatuses =>
            (net'.result = "permanent" /\ net'.code = net'.last)
       /\ net'.last \notin PermanentStatuses =>
            (net'.result \in {"running", "id", "failed", "runtime", "attribute"}
             /\ net'.code = None)]_vars

\* An upload whose first request was retried ends with PermanentUploadError
\* on a later request.
PermanentNotRetriedWitness ==
  /\ net.call = "upload"
  /\ net.sent > 1
  /\ net.last = 422
  /\ net.result = "permanent"
  /\ net.code = 422

\* ------------------------------------------------------------------ C18
\* C18: the upload attempt bound. Whatever the remote answers, one call of
\* upload_file sends at most `retries` HTTP requests.
UploadAttemptBound == net.call = "upload" => net.sent <= net.retries

\* ------------------------------------------------------------------ C19
\* The step ended a call of _request made by add_to_knowledge.
RequestEnded == net'.result # "running" \/ net'.outer # net.outer
IsError(outcome) == outcome = TransportError \/ RaisesForStatus(outcome)

\* C19: the attach aborts on a non-rejection error. When the request of a
\* body shape ends in an error status other than 400, 404 or 422, or in a
\* transport failure, add_to_knowledge sends no further shape and ends as a
\* failure carrying that error; after an error the next shape is tried only
\* if the error was 400, 404 or 422.
AttachAborts ==
  [][(net.call = "add" /\ RequestEnded /\ IsError(net'.last)) =>
       IF net'.last \in {400, 404, 422}
         THEN net'.result \in {"running", "notok"}
         ELSE /\ net'.result \in {"notok", "raised"}
              /\ net'.outer = net.outer
              /\ net'.result = "notok" => net'.last_error = net'.last]_vars

\* ------------------------------------------------------------------ C20
\* C20: the attach short-circuit. add_to_knowledge sends the five body
\* shapes in their fixed order; no shape is sent after one was answered with
\* a 2xx status; the call returns ok=true exactly when some shape was
\* answered with a 2xx status, and ok=false with the last error when none
\* was.
AttachShortCircuit ==
  net.call = "add" =>
    /\ Len(net.shapes) <= Len(payloads)
    /\ net.shapes = SubSeq(payloads, 1, Len(net.shapes))
    /\ net.got2xx => net.result # "running"
    /\ net.result \in {"ok", "notok"} => (net.result = "ok" <=> net.got2xx)
    /\ (net.result = "notok" /\ ~net.got2xx) => net.last_error = net.last

\* ------------------------------------------------------------------ C14
\* C14: crash-safe save. When the process is killed inside save(), the state
\* file holds a whole document, the one it held before that save or the one
\* being saved (or there is still no file if there was none and none was
\* created), never an empty or truncated one; the restart that follows
\* loads that document (the empty mapping if there is no file) and leaves
\* the store enabled.
CrashSafeSave ==
  [][(disk.phase = "down" /\ disk.in_save) =>
       /\ \/ Complete(disk) /\ disk.file_ver \in {disk.old_ver, disk.mem}
          \/ disk.file_ver = None /\ disk.old_ver = None
       /\ disk'.phase = "running" =>
            /\ disk'.enabled
            /\ disk'.mem = IF disk.file_ver = None THEN 0 ELSE disk.file_ver]_vars

\* ------------------------------------------------------------------ C21
\* The new content of rel is uploaded and attached, the file has not changed
\* since, and the delete of the entry it replaces has not succeeded yet.
ReplacePending(rel) ==
  /\ enabled
  /\ rel \in DOMAIN st
  /\ rel \in DOMAIN fs
  /\ st[rel].replace_id # None
  /\ uploaded_matches(st[rel], fs[rel])

\* C21: the replace deletion is retried. While the delete of a path's
\* replace_id has not succeeded, replace_id stays set in the path's state,
\* at the end of the pass and through the following passes; it leaves the
\* state only in a step that issued a successful delete request for that id.
ReplaceDeleteRetried ==
  [][\A rel \in Rels :
       (ReplacePending(rel) /\ rel \in DOMAIN st') =>
         \/ st'[rel].replace_id = st[rel].replace_id
         \/ \E k \in NewReqs : /\ k.op \in {"replace_delete", "delete"}
                               /\ k.id = st[rel].replace_id
                               /\ k.res = "ok"]_vars

\* ------------------------------------------------------------------ C22
\* C22: replace_id names the old entry. The replace deletion issued for a
\* path never names the remote id that the same step uploaded or attached
\* for that path.
ReplaceIdIsOld ==
  [][\A a \in NewReqs, d \in NewReqs :
       (a.op \in {"upload", "attach"} /\ d.op = "replace_delete" /\ a.rel = d.rel)
         => a.id # d.id]_vars

\* ------------------------------------------------------------------ C23
\* The step issued a request `op` for rel that the remote answered with
\* success.
Succeeded(op, rel) == \E k \in NewReqs : k.op = op /\ k.rel = rel /\ k.res = "ok"
UploadedFp(s) == Fp(s.uploaded_size, s.uploaded_mtime)

\* C23: the added/fingerprint invariant. From an empty store, `added`
\* becomes true, and the uploaded fingerprint of an added path changes, only
\* in a step with a successful attach for the path, which writes the size
\* and mtime of the pass's scan as the uploaded fingerprint; a successful
\* upload that is not followed by a successful attach leaves added = false,
\* and so does every blocked marking.
AddedFingerprint ==
  [][\A rel \in DOMAIN st' :
       LET old == Get(st, rel)
           new == st'[rel]
       IN /\ (new.added /\ (~old.added \/ UploadedFp(new) # UploadedFp(old))) =>
               (Succeeded("attach", rel) /\ UploadedFp(new) = local[rel])
          /\ (Succeeded("upload", rel) /\ ~Succeeded("attach", rel)) => ~new.added
          /\ (new.blocked_reason /\ ~old.blocked_reason) => ~new.added]_vars

\* A changed file was uploaded and attached again: its path is added with
\* the fingerprint of the second attach, which differs from the scan of the
\* first.
AddedFingerprintWitness ==
  /\ InLoops
  /\ \E rel \in DOMAIN st \cap DOMAIN local :
       /\ st[rel].added
       /\ UploadedFp(st[rel]) = local[rel]
       /\ rel \in DOMAIN prev
       /\ prev[rel].added
       /\ UploadedFp(prev[rel]) # local[rel]
       /\ \E k \in DOMAIN log : log[k].op = "attach" /\ log[k].rel = rel /\ log[k].res = "ok"

\* ------------------------------------------------------------------ C24
\* C24: no stale state entries. With persistence enabled, when a pass ends,
\* whatever its remote listing did, the StateStore has no entry for a path
\* that the pass's scan of the watched directory did not find.
NoStaleEntries ==
  [][(pc # "returned" /\ pc' = "returned" /\ enabled /\ enabled') =>
       DOMAIN st' \subseteq DOMAIN (IF pc = "idle" THEN fs ELSE local)]_vars

\* ------------------------------------------------------------------ C27
\* The step is a pass whose remote listing failed.
ListingFailed == pc = "idle" /\ pc' = "returned" /\ fails' = fails + 1

\* C27: a failed listing changes nothing. A pass whose remote listing fails
\* issues no upload, attach or delete request, leaves every StateStore
\* entry, the watched directory, the quarantine folder and the remote
\* collection as they were, and builds no queue.
FailedListingFrame ==
  [][ListingFailed =>
       /\ NewReqs = {}
       /\ st' = st
       /\ <<fs', qfiles', sidecars', remote', nextId'>> = <<fs, qfiles, sidecars, remote, nextId>>
       /\ <<to_upload', to_add', to_delete'>> = <<<<>>, <<>>, <<>>>>]_vars

\* A pass has returned on a failed listing while the directory held a file,
\* the store held entries and the collection held entries to delete.
FailedListingWitness ==
  /\ pc = "returned"
  /\ fails > 0
  /\ local = Empty
  /\ fs # Empty
  /\ st # Empty
  /\ enabled
  /\ \E e \in remote : e.name \notin local_names(fs, qfiles)

\* ------------------------------------------------------------------ C26
\* C26: the attached id matches the recorded content. Whenever a step
\* attaches an id for a path and records the path as added with an uploaded
\* fingerprint, that id was returned by an upload of a file with that
\* fingerprint; the attach-only loop too never attaches the id of an
\* earlier fingerprint and records the new one.
AttachedContent ==
  [][\A k \in NewReqs :
       (k.op = "attach" /\ k.res = "ok" /\ k.rel \in DOMAIN st' /\ st'[k.rel].added) =>
         /\ k.id \in DOMAIN idFp'
         /\ idFp'[k.id] = UploadedFp(st'[k.rel])]_vars

\* ------------------------------------------------------------------ C28
\* C28: no new pass after stop. Once the stop flag is set while the
\* scheduler sleeps between two passes, run() calls sync_once no more: the
\* sleep is not followed by a pass, so no listing request is issued.
NoPassAfterStop ==
  [][(stop /\ ~first /\ pc = "idle") => pc' = "idle"]_vars

\* ------------------------------------------------------------------ C29
\* C29: bounded remote copies in stateless mode. With the StateStore
\* disabled and a remote that has accepted every request, when a pass over
\* the watched directory has completed the collection holds at most one
\* entry for the display name of each local file.
StatelessBounded ==
  (/\ pc = "returned"
   /\ ~wasEnabled /\ ~enabled
   /\ fails = 0
   /\ ~stop
   /\ local = fs)
    => \A rel \in DOMAIN local :
         Cardinality({e \in remote : e.name = Name(rel)}) <= 1

\* ------------------------------------------------------------------ C25
\* C25: the remote listing terminates. Whatever the remote answers,
\* get_remote_items makes at most page_limit page requests. It stops
\* without appending at the first empty page and at the first page whose
\* signature equals the signature of the page before; otherwise it appends
\* the page and stops exactly when the items collected reach the declared
\* total or the page cap is reached.
ListingTerminates ==
  [][(pager.result = "running" /\ pager'.kind = "page") =>
       LET items == pager'.items
           noAppend == items = <<>> \/ Signature(items) = pager.last_signature
       IN /\ pager'.requests = pager.requests + 1
          /\ pager'.requests <= page_limit
          /\ noAppend => (pager'.result = "returned" /\ pager'.out = pager.out)
          /\ ~noAppend =>
               /\ pager'.out = pager.out \o items
               /\ pager'.result = "returned" <=>
                    \/ pager'.total # None /\ Len(pager'.out) >= pager'.total
                    \/ pager'.requests = page_limit
               /\ pager'.result \in {"running", "returned"}]_vars

\* The remote declared a total it never reached and kept sending new
\* non-empty pages: the listing returned at the page cap.
ListingTerminatesWitness ==
  /\ pager.result = "returned"
  /\ pager.requests = page_limit
  /\ pager.kind = "page"
  /\ pager.total # None
  /\ Len(pager.out) < pager.total
  /\ Len(pager.out) >= page_limit


====
